---- MODULE Spec2Model ----
(***************************************************************************)
(* gowitness "server" command: the HTTP handler of cmd/server.go, which    *)
(* validates the url/width/height query parameters, asks the Chrome        *)
(* wrapper for a screenshot and writes it back, optionally resized.        *)
(*                                                                         *)
(* Strings are sequences of one-character strings, so that TrimSpace,      *)
(* Atoi, url.Parse and HasPrefix are computed character by character.      *)
(* A byte stream (a screenshot, a response body) is a sequence of blocks   *)
(* [tag, w, h]; the response body is the concatenation of the data handed  *)
(* to the ResponseWriter's Write calls, in order.                          *)
(***************************************************************************)
EXTENDS Integers, Sequences, FiniteSets, TLC

VARIABLES
    options,   \* options.AllowInsecureURIs, set from the command line flag
    pc,        \* position of the handler: idle, validate, capture, respond, done
    r,         \* the request's query parameters url, width, height
    w,         \* the http.ResponseWriter
    width,     \* handler local
    height,    \* handler local
    url,       \* handler local: the parsed URL
    buf,       \* handler local: the bytes chrm.Screenshot returned
    dstImage,  \* handler local: the image imaging.Fit returned
    err,       \* handler local: the last error ("" is nil)
    site,      \* line of the http.Error call that answered the request, 0 if none
    calls      \* calls the handler made on its collaborators for this request

vars == <<options, pc, r, w, width, height, url, buf, dstImage, err, site, calls>>

(***************************************************************************)
(* Bounds of the explored requests.                                        *)
(***************************************************************************)
MaxPad == 1    \* spaces put before and after the url parameter
MaxExt == 1    \* letters appended to a base scheme (http -> https, httpx)

(***************************************************************************)
(* Program constants.                                                      *)
(***************************************************************************)
StatusOK == 200
StatusNotAcceptable == 406
StatusInternalServerError == 500
JpegMaxDim == 65536     \* image/jpeg refuses images of 1<<16 pixels or more a side

(***************************************************************************)
(* strings                                                                 *)
(***************************************************************************)
HTTP == <<"h", "t", "t", "p">>

IsSpace(c) == c \in {" ", "\t", "\n", "\r"}

RECURSIVE TrimLeft(_)
TrimLeft(s) ==
    IF s # <<>> /\ IsSpace(Head(s)) THEN TrimLeft(Tail(s)) ELSE s

RECURSIVE TrimRight(_)
TrimRight(s) ==
    IF s # <<>> /\ IsSpace(s[Len(s)]) THEN TrimRight(SubSeq(s, 1, Len(s) - 1)) ELSE s

TrimSpace(s) == TrimRight(TrimLeft(s))

HasPrefix(s, prefix) ==
    /\ Len(s) >= Len(prefix)
    /\ SubSeq(s, 1, Len(prefix)) = prefix

Contains(s, c) == \E i \in 1..Len(s) : s[i] = c

\* index of the first c in s, 0 when there is none
Index(s, c) ==
    IF Contains(s, c) THEN CHOOSE i \in 1..Len(s) : s[i] = c /\ \A j \in 1..(i - 1) : s[j] # c
    ELSE 0

LowerOf(c) ==
    CASE c = "H" -> "h"
      [] c = "T" -> "t"
      [] c = "P" -> "p"
      [] OTHER -> c

ToLower(s) == [i \in 1..Len(s) |-> LowerOf(s[i])]

IsLetter(c) == c \in {"a", "e", "f", "h", "i", "l", "p", "s", "t", "x", "H", "T", "P"}
IsDigit(c) == c \in {"0", "1", "2", "3", "4", "5", "6", "7", "8", "9"}
IsCTL(c) == c \in {"DEL", "\t", "\n", "\r"}

DigitVal(c) ==
    CASE c = "0" -> 0 [] c = "1" -> 1 [] c = "2" -> 2 [] c = "3" -> 3 [] c = "4" -> 4
      [] c = "5" -> 5 [] c = "6" -> 6 [] c = "7" -> 7 [] c = "8" -> 8 [] c = "9" -> 9

(***************************************************************************)
(* strconv.Atoi, on strings short enough for its fast path                 *)
(***************************************************************************)
RECURSIVE Digits(_, _)
Digits(s, n) ==
    IF s = <<>> THEN n ELSE Digits(Tail(s), n * 10 + DigitVal(Head(s)))

Atoi(s) ==
    IF s = <<>> THEN [n |-> 0, err |-> "invalid syntax"]
    ELSE LET signed == Head(s) \in {"-", "+"}
             body == IF signed THEN Tail(s) ELSE s
         IN  IF body = <<>> \/ \E i \in 1..Len(body) : ~IsDigit(body[i])
             THEN [n |-> 0, err |-> "invalid syntax"]
             ELSE [n |-> IF Head(s) = "-" THEN 0 - Digits(body, 0) ELSE Digits(body, 0),
                   err |-> ""]

(***************************************************************************)
(* net/url.Parse as the handler uses it: the control-character check, the  *)
(* scheme split (getScheme), the lower-casing of the scheme, the colon     *)
(* rule for scheme-less first path segments and the host check.            *)
(***************************************************************************)
NoURL == [Scheme |-> <<>>, Rest |-> <<>>]

RECURSIVE getSchemeFrom(_, _)
getSchemeFrom(rawURL, i) ==
    IF i > Len(rawURL) THEN [scheme |-> <<>>, rest |-> rawURL, err |-> ""]
    ELSE LET c == rawURL[i]
         IN  IF IsLetter(c) THEN getSchemeFrom(rawURL, i + 1)
             ELSE IF IsDigit(c) \/ c \in {"+", "-", "."}
             THEN IF i = 1 THEN [scheme |-> <<>>, rest |-> rawURL, err |-> ""]
                  ELSE getSchemeFrom(rawURL, i + 1)
             ELSE IF c = ":"
             THEN IF i = 1 THEN [scheme |-> <<>>, rest |-> <<>>, err |-> "missing protocol scheme"]
                  ELSE [scheme |-> SubSeq(rawURL, 1, i - 1),
                        rest |-> SubSeq(rawURL, i + 1, Len(rawURL)),
                        err |-> ""]
             ELSE [scheme |-> <<>>, rest |-> rawURL, err |-> ""]

getScheme(rawURL) == getSchemeFrom(rawURL, 1)

\* the text of s before its first c (all of s when there is none)
Before(s, c) == IF Contains(s, c) THEN SubSeq(s, 1, Index(s, c) - 1) ELSE s

\* the authority of a rest that starts with "//"
Authority(rest) == Before(SubSeq(rest, 3, Len(rest)), "/")

Parse(rawURL) ==
    IF \E i \in 1..Len(rawURL) : IsCTL(rawURL[i])
    THEN [url |-> NoURL, err |-> "net/url: invalid control character in URL"]
    ELSE LET gs == getScheme(rawURL)
             scheme == ToLower(gs.scheme)
             rest == gs.rest
         IN  IF gs.err # "" THEN [url |-> NoURL, err |-> gs.err]
             ELSE IF ~HasPrefix(rest, <<"/">>) /\ scheme # <<>>
             THEN [url |-> [Scheme |-> scheme, Rest |-> rest], err |-> ""]
             ELSE IF ~HasPrefix(rest, <<"/">>) /\ Contains(Before(rest, "/"), ":")
             THEN [url |-> NoURL, err |-> "first path segment in URL cannot contain colon"]
             ELSE IF /\ HasPrefix(rest, <<"/", "/">>)
                     /\ (scheme # <<>> \/ ~HasPrefix(rest, <<"/", "/", "/">>))
                     /\ Contains(Authority(rest), " ")
             THEN [url |-> NoURL, err |-> "invalid character in host name"]
             ELSE [url |-> [Scheme |-> scheme, Rest |-> rest], err |-> ""]

(***************************************************************************)
(* http.ResponseWriter and http.Error                                      *)
(***************************************************************************)
Block(tag, bw, bh) == [tag |-> tag, w |-> bw, h |-> bh]
Text(msg) == <<Block(msg, 0, 0)>>      \* the line fmt.Fprintln writes

NewResponse ==
    [header |-> "", wroteHeader |-> FALSE, status |-> 0, contentType |-> "", body |-> <<>>]

HeaderSet(rw, value) == [rw EXCEPT !.header = value]

TextPlain == "text/plain; charset=utf-8"

\* a second WriteHeader is superfluous: the first status and headers stand
WriteHeader(rw, code) ==
    IF rw.wroteHeader THEN rw
    ELSE [rw EXCEPT !.wroteHeader = TRUE, !.status = code, !.contentType = rw.header]

Write(rw, data) ==
    LET rw1 == IF rw.wroteHeader THEN rw ELSE WriteHeader(rw, StatusOK)
    IN  [rw1 EXCEPT !.body = rw1.body \o data]

\* variant: the message is written before the status
Error_BodyFirst(rw, msg, code) ==
    WriteHeader(Write(HeaderSet(rw, TextPlain), Text(msg)), code)

Error(rw, msg, code) ==
    Write(WriteHeader(HeaderSet(rw, TextPlain), code), Text(msg))

(***************************************************************************)
(* images: the PNG chrm.Screenshot returns, image.Decode, imaging.Fit and  *)
(* jpeg.Encode                                                             *)
(***************************************************************************)
Image(iw, ih) == [W |-> iw, H |-> ih]
NoImage == Image(0, 0)

PNG(img) == <<Block("PNG", 0, 0), Block("IHDR", img.W, img.H), Block("IEND", 0, 0)>>
JPEG(img) == <<Block("SOI", 0, 0), Block("SOF", img.W, img.H), Block("EOI", 0, 0)>>
Junk == <<Block("junk", 0, 0)>>

Decode(data) ==
    IF Len(data) = 3 /\ data[1].tag = "PNG" /\ data[2].tag = "IHDR" /\ data[3].tag = "IEND"
    THEN [img |-> Image(data[2].w, data[2].h), err |-> ""]
    ELSE [img |-> NoImage, err |-> "image: unknown format"]

\* a/b > c/d for b, d > 0, compared exactly and without forming a*d or b*c
RECURSIVE RatioGT(_, _, _, _)
RatioGT(a, b, c, d) ==
    IF a \div b # c \div d THEN a \div b > c \div d
    ELSE IF a % b = 0 THEN FALSE
    ELSE IF c % d = 0 THEN TRUE
    ELSE RatioGT(d, c % d, b, a % b)

Max(a, b) == IF a > b THEN a ELSE b

\* imaging.Resize: a zero side is derived from the other, rounded, at least 1
Resize(img, dstW, dstH) ==
    IF dstW < 0 \/ dstH < 0 \/ (dstW = 0 /\ dstH = 0) THEN NoImage
    ELSE IF dstW = 0 THEN Image(Max(1, (2 * dstH * img.W + img.H) \div (2 * img.H)), dstH)
    ELSE IF dstH = 0 THEN Image(dstW, Max(1, (2 * dstW * img.H + img.W) \div (2 * img.W)))
    ELSE Image(dstW, dstH)

\* variant: resizes to the box itself, without keeping the aspect ratio
Fit_Stretch(img, maxW, maxH) ==
    IF maxW <= 0 \/ maxH <= 0 THEN NoImage
    ELSE IF img.W <= 0 \/ img.H <= 0 THEN NoImage
    ELSE Resize(img, maxW, maxH)

Fit(img, maxW, maxH) ==
    IF maxW <= 0 \/ maxH <= 0 THEN NoImage
    ELSE IF img.W <= 0 \/ img.H <= 0 THEN NoImage
    ELSE IF img.W <= maxW /\ img.H <= maxH THEN img
    ELSE IF RatioGT(img.W, img.H, maxW, maxH)
         THEN Resize(img, maxW, (maxW * img.H) \div img.W)
         ELSE Resize(img, (maxH * img.W) \div img.H, maxH)

\* jpeg.Encode(w, img, nil): failAt = 0 when every Write to w succeeds, else the
\* number of the Write that failed, after which the encoder gives up
Encode(rw, img, failAt) ==
    IF img.W >= JpegMaxDim \/ img.H >= JpegMaxDim
    THEN [w |-> rw, err |-> "jpeg: image is too large to encode"]
    ELSE IF failAt = 0
    THEN [w |-> Write(rw, JPEG(img)), err |-> ""]
    ELSE [w |-> Write(rw, SubSeq(JPEG(img), 1, failAt)), err |-> "write: broken pipe"]

(***************************************************************************)
(* the handler's validation, lines 69-109                                  *)
(***************************************************************************)
\* variant: only a parse failure is 0, a value below 1 is kept
ParseDim_NoFloor(s) ==
    LET a == Atoi(s)
    IN  IF a.err # "" THEN 0 ELSE a.n

\* lines 78-86: a parse failure or a value below 1 is 0
ParseDim(s) ==
    LET a == Atoi(s)
    IN  IF a.err # "" \/ a.n < 1 THEN 0 ELSE a.n

\* variant: the flag is read with the wrong polarity
SchemeRejected_FlagInverted(allow, scheme) == allow /\ ~HasPrefix(scheme, HTTP)

\* variant: the flag is not read
SchemeRejected_NoFlag(allow, scheme) == ~HasPrefix(scheme, HTTP)

\* lines 104-105
SchemeRejected(allow, scheme) == ~allow /\ ~HasPrefix(scheme, HTTP)

Rejected(line, code, msg, wd, ht, u) ==
    [site |-> line, code |-> code, msg |-> msg, width |-> wd, height |-> ht, url |-> u]

Accepted(wd, ht, u) ==
    [site |-> 0, code |-> 0, msg |-> "", width |-> wd, height |-> ht, url |-> u]

MsgMissingURL == "url parameter missing. eg ?url=https://google.com"
MsgWidthOnly == "received width option without height argument"
MsgHeightOnly == "received height option without width argument"
MsgInsecure == "only http(s) urls are accepted"

\* variant: the check of lines 93-96 is missing
ParamRules_NoHeightCheck(req) ==
    LET rawURL == TrimSpace(req.url)
        wd == ParseDim(req.width)
        ht == ParseDim(req.height)
    IN  IF rawURL = <<>>
        THEN Rejected(71, StatusNotAcceptable, MsgMissingURL, 0, 0, NoURL)
        ELSE IF wd > 0 /\ ht = 0
        THEN Rejected(89, StatusNotAcceptable, MsgWidthOnly, wd, ht, NoURL)
        ELSE Accepted(wd, ht, NoURL)

\* lines 69-96: the url parameter is present and the dimensions are complete
ParamRules(req) ==
    LET rawURL == TrimSpace(req.url)
        wd == ParseDim(req.width)
        ht == ParseDim(req.height)
    IN  IF rawURL = <<>>
        THEN Rejected(71, StatusNotAcceptable, MsgMissingURL, 0, 0, NoURL)
        ELSE IF wd > 0 /\ ht = 0
        THEN Rejected(89, StatusNotAcceptable, MsgWidthOnly, wd, ht, NoURL)
        ELSE IF ht > 0 /\ wd = 0
        THEN Rejected(94, StatusNotAcceptable, MsgHeightOnly, wd, ht, NoURL)
        ELSE Accepted(wd, ht, NoURL)

\* lines 98-109: the url parses and its scheme is allowed
URLRules(req, allow, wd, ht) ==
    LET parsed == Parse(TrimSpace(req.url))
    IN  IF parsed.err # ""
        THEN Rejected(100, StatusInternalServerError, parsed.err, wd, ht, NoURL)
        ELSE IF SchemeRejected(allow, parsed.url.Scheme)
        THEN Rejected(106, StatusNotAcceptable, MsgInsecure, wd, ht, parsed.url)
        ELSE Accepted(wd, ht, parsed.url)

\* variant: the url is parsed and its scheme checked before the dimensions
Validation_URLFirst(req, allow) ==
    LET p == ParamRules(req)
        u == URLRules(req, allow, ParseDim(req.width), ParseDim(req.height))
    IN  IF p.site = 71 THEN p
        ELSE IF u.site # 0 THEN u
        ELSE IF p.site # 0 THEN p
        ELSE u

\* lines 69-109, in the order of the code
Validation(req, allow) ==
    LET p == ParamRules(req)
    IN  IF p.site # 0 THEN p ELSE URLRules(req, allow, p.width, p.height)

(***************************************************************************)
(* the requests and collaborator results explored                          *)
(***************************************************************************)
Spaces(n) == [i \in 1..n |-> " "]

RECURSIVE SeqsUpTo(_, _)
SeqsUpTo(S, n) ==
    IF n = 0 THEN {<<>>}
    ELSE LET shorter == SeqsUpTo(S, n - 1)
         IN  shorter \cup {Append(s, c) : s \in shorter, c \in S}

Bases == {<<>>, HTTP, <<"H", "T", "T", "P">>, <<"f", "i", "l", "e">>, <<"f", "t", "p">>, <<"1">>}
Exts == SeqsUpTo({"s", "x"}, MaxExt)
Tails == {<<>>,
          <<":", "/", "/", "a">>,
          <<":", "/", "/", "/", "e">>,
          <<":", "a">>,
          <<":", "/", "/", "a", " ", "a">>,
          <<":", "/", "/", "a", "DEL">>}

URLParams ==
    {Spaces(n) \o b \o e \o t \o Spaces(m) :
        n \in 0..MaxPad, m \in 0..MaxPad, b \in Bases, e \in Exts, t \in Tails}

DimParams == {<<>>, <<"a">>, <<"0">>, <<"-", "1">>, <<"1", "0", "0">>, <<"2", "0", "0">>,
              <<"7", "0", "0", "0", "0">>}

Requests == [url : URLParams, width : DimParams, height : DimParams]
NoRequest == [url |-> <<>>, width |-> <<>>, height |-> <<>>]

Images == {Image(400, 400), Image(800, 200), Image(70000, 1)}
ScreenshotResults ==
    {[buf |-> PNG(img), err |-> ""] : img \in Images}
        \cup {[buf |-> Junk, err |-> ""]}
        \cup {[buf |-> <<>>, err |-> e] : e \in {"chrome: deadline exceeded", "chrome: exited"}}

\* Screenshot: one entry per chrm.Screenshot call, its argument and its results
NoCalls == [Screenshot |-> <<>>, Decode |-> 0, Fit |-> 0, Encode |-> 0]

(***************************************************************************)
(* the server                                                              *)
(***************************************************************************)
Init ==
    /\ options \in [AllowInsecureURIs : BOOLEAN]
    /\ pc = "idle"
    /\ r = NoRequest
    /\ w = NewResponse
    /\ width = 0
    /\ height = 0
    /\ url = NoURL
    /\ buf = <<>>
    /\ dstImage = NoImage
    /\ err = ""
    /\ site = 0
    /\ calls = NoCalls

\* line 52: the server hands a request to handler with a fresh ResponseWriter
Receive ==
    /\ pc = "idle"
    /\ \E req \in Requests : r' = req
    /\ pc' = "validate"
    /\ w' = NewResponse
    /\ UNCHANGED <<options, width, height, url, buf, dstImage, err, site, calls>>

\* lines 69-109
Validate ==
    /\ pc = "validate"
    /\ LET v == Validation(r, options.AllowInsecureURIs)
       IN  /\ width' = v.width
           /\ height' = v.height
           /\ url' = v.url
           /\ site' = v.site
           /\ IF v.site # 0
              THEN /\ w' = Error(w, v.msg, v.code)
                   /\ err' = CASE v.site = 71 -> ""
                                 [] v.site \in {89, 94} -> Atoi(r.height).err
                                 [] v.site = 100 -> v.msg
                                 [] v.site = 106 -> ""
                   /\ pc' = "done"
              ELSE /\ w' = w
                   /\ err' = ""
                   /\ pc' = "capture"
    /\ UNCHANGED <<options, r, buf, dstImage, calls>>

\* lines 111-115
Screenshot ==
    /\ pc = "capture"
    /\ \E res \in ScreenshotResults :
          /\ buf' = res.buf
          /\ err' = res.err
          /\ IF res.err # ""
             THEN /\ w' = Error(w, res.err, StatusInternalServerError)
                  /\ site' = 113
                  /\ pc' = "done"
             ELSE /\ w' = w
                  /\ site' = site
                  /\ pc' = "respond"
          /\ calls' = [calls EXCEPT !.Screenshot =
                                   Append(@, [url |-> url, buf |-> res.buf, err |-> res.err])]
    /\ UNCHANGED <<options, r, width, height, url, dstImage>>

\* lines 117-121
WritePNG ==
    /\ pc = "respond"
    /\ width = 0
    /\ w' = Write(HeaderSet(w, "image/png"), buf)
    /\ pc' = "done"
    /\ UNCHANGED <<options, r, width, height, url, buf, dstImage, err, site, calls>>

\* lines 123-136
Transform ==
    /\ pc = "respond"
    /\ width # 0
    /\ LET dec == Decode(buf)
           dst == Fit(dec.img, width, height)
       IN  IF dec.err # ""
           THEN /\ w' = Error(w, dec.err, StatusInternalServerError)
                /\ err' = dec.err
                /\ site' = 125
                /\ dstImage' = dstImage
                /\ calls' = [calls EXCEPT !.Decode = @ + 1]
           ELSE \E failAt \in 0..Len(JPEG(dst)) :
                   LET enc == Encode(HeaderSet(w, "image/jpeg"), dst, failAt)
                   IN  /\ dstImage' = dst
                       /\ err' = enc.err
                       /\ calls' = [calls EXCEPT !.Decode = @ + 1, !.Fit = @ + 1,
                                                 !.Encode = @ + 1]
                       /\ IF enc.err # ""
                          THEN /\ w' = Error(enc.w, enc.err, StatusInternalServerError)
                               /\ site' = 133
                          ELSE /\ w' = enc.w
                               /\ site' = site
    /\ pc' = "done"
    /\ UNCHANGED <<options, r, width, height, url, buf>>

\* handler returns: its locals and the request are gone
Finish ==
    /\ pc = "done"
    /\ pc' = "idle"
    /\ r' = NoRequest
    /\ w' = NewResponse
    /\ width' = 0
    /\ height' = 0
    /\ url' = NoURL
    /\ buf' = <<>>
    /\ dstImage' = NoImage
    /\ err' = ""
    /\ site' = 0
    /\ calls' = NoCalls
    /\ UNCHANGED options

Next == Receive \/ Validate \/ Screenshot \/ WritePNG \/ Transform \/ Finish

Spec == Init /\ [][Next]_vars

(***************************************************************************)
(* Properties.  They read the request (r), the response (w) and the calls  *)
(* made on the collaborators; a parameter is "supplied" when it is a       *)
(* positive integer, and a url is "blank" when it holds nothing but        *)
(* spaces.                                                                 *)
(***************************************************************************)
HTTPS == HTTP \o <<"s">>
FILE == <<"f", "i", "l", "e">>
Shots == calls.Screenshot
Blank(s) == \A i \in 1..Len(s) : s[i] = " "
Supplied(s) == Atoi(s).err = "" /\ Atoi(s).n > 0
ReqTarget == Parse(TrimSpace(r.url))
ImageTags == {"PNG", "IHDR", "IEND", "SOI", "SOF", "EOI", "junk"}
ImageTypes == {"image/png", "image/jpeg"}
Captured == Shots # <<>> /\ Shots[1].err = ""
Abs(n) == IF n < 0 THEN 0 - n ELSE n

\* C1: in default mode a request whose url parses to a scheme that does not
\* start with "http" is answered 406 and chrm.Screenshot is never called for
\* it, whatever its width and height.
C1_InsecureSchemeRejected ==
    (/\ pc # "idle"
     /\ ~options.AllowInsecureURIs
     /\ ReqTarget.err = ""
     /\ ~HasPrefix(ReqTarget.url.Scheme, HTTP))
    => /\ Shots = <<>>
       /\ pc \in {"validate", "done"}
       /\ pc = "done" => w.status = StatusNotAcceptable

C1_Witness ==
    /\ pc = "done"
    /\ ~options.AllowInsecureURIs
    /\ ReqTarget.err = ""
    /\ ReqTarget.url.Scheme = FILE
    /\ Supplied(r.width) /\ Supplied(r.height)
    /\ w.status = StatusNotAcceptable
    /\ w.body = Text(MsgInsecure)

\* C2: in default mode every target handed to chrm.Screenshot has a scheme
\* that is exactly "http" or exactly "https".
C2_CapturedSchemeHttpOrHttps ==
    ~options.AllowInsecureURIs
    => \A i \in 1..Len(Shots) : Shots[i].url.Scheme \in {HTTP, HTTPS}

\* C3: a request ends in exactly one outcome, a success response (status 200,
\* an image content type, image bytes only) or an error response (an error
\* status, plain text, the message only); on an error path no image content
\* type and no image bytes were written before the error response.
C3_OneOutcomeNoPartialWrite ==
    pc = "done"
    => \/ /\ site = 0
          /\ w.status = StatusOK
          /\ w.contentType \in ImageTypes
          /\ w.body # <<>>
          /\ \A i \in 1..Len(w.body) : w.body[i].tag \in ImageTags
       \/ /\ site # 0
          /\ w.status \in {StatusNotAcceptable, StatusInternalServerError}
          /\ w.contentType = TextPlain
          /\ Len(w.body) = 1
          /\ w.body[1].tag \notin ImageTags

\* C4: a request with a non-blank url and exactly one supplied dimension is
\* answered 406 without a call to chrm.Screenshot; whenever chrm.Screenshot
\* is called, width and height are both 0 or both positive.
C4_IncompleteDimensionsRejected ==
    /\ (/\ pc # "idle"
        /\ ~Blank(r.url)
        /\ Supplied(r.width) # Supplied(r.height))
       => /\ Shots = <<>>
          /\ pc \in {"validate", "done"}
          /\ pc = "done" => w.status = StatusNotAcceptable
    /\ Shots # <<>>
       => /\ (width = 0 /\ height = 0) \/ (width > 0 /\ height > 0)
          /\ Supplied(r.width) = Supplied(r.height)

C4_Witness ==
    /\ pc = "done"
    /\ ~Blank(r.url)
    /\ ~Supplied(r.width) /\ r.width # <<>>
    /\ Supplied(r.height)
    /\ ReqTarget.err = ""
    /\ ReqTarget.url.Scheme = HTTPS
    /\ w.status = StatusNotAcceptable
    /\ Shots = <<>>

\* C5: when chrm.Screenshot returns an error the response is 500 with the
\* error's text and nothing else, no image is written, and chrm.Screenshot
\* is not called again.
C5_CaptureFailure ==
    /\ Len(Shots) <= 1
    /\ (pc = "done" /\ Shots # <<>> /\ Shots[1].err # "")
       => /\ w.status = StatusInternalServerError
          /\ w.contentType = TextPlain
          /\ w.body = Text(Shots[1].err)
          /\ calls.Decode = 0 /\ calls.Fit = 0 /\ calls.Encode = 0

C5_Witness ==
    /\ pc = "done"
    /\ Shots # <<>>
    /\ Shots[1].err = "chrome: exited"
    /\ w.status = StatusInternalServerError
    /\ width > 0

\* C6: with neither width nor height supplied (absent, unparseable or not
\* positive), a successful capture is answered with Content-Type image/png
\* and exactly the bytes chrm.Screenshot returned; nothing is decoded,
\* resized or encoded.
C6_PassThrough ==
    (/\ pc = "done"
     /\ ~Supplied(r.width)
     /\ ~Supplied(r.height)
     /\ Captured)
    => /\ w.status = StatusOK
       /\ w.contentType = "image/png"
       /\ w.body = Shots[1].buf
       /\ calls.Decode = 0 /\ calls.Fit = 0 /\ calls.Encode = 0

C6_Witness ==
    /\ pc = "done"
    /\ r.width = <<"-", "1">>
    /\ r.height = <<"a">>
    /\ Captured
    /\ w.body = PNG(Image(400, 400))
    /\ w.contentType = "image/png"

\* the response is the JPEG of the captured image fitted into the requested box
ResizedJpeg ==
    /\ w.status = StatusOK
    /\ w.contentType = "image/jpeg"
    /\ Len(w.body) = 3
    /\ w.body[1].tag = "SOI" /\ w.body[2].tag = "SOF" /\ w.body[3].tag = "EOI"
    /\ LET src == Image(Shots[1].buf[2].w, Shots[1].buf[2].h)
           out == Image(w.body[2].w, w.body[2].h)
           maxW == Atoi(r.width).n
           maxH == Atoi(r.height).n
           skew == Abs(out.W * src.H - out.H * src.W)
       IN  /\ out.W >= 1 /\ out.H >= 1
           /\ out.W <= maxW /\ out.H <= maxH
           /\ IF src.W <= maxW /\ src.H <= maxH
              THEN out = src
              ELSE \/ out.W = maxW /\ skew < src.W
                   \/ out.H = maxH /\ skew < src.H
           /\ (src = Image(400, 400) /\ maxW = 200 /\ maxH = 100) => out = Image(100, 100)

\* C7 as stated: with both width and height supplied, every successful
\* capture is answered with Content-Type image/jpeg and the JPEG of the
\* captured image fitted into the width x height box, aspect ratio kept.
C7_ResizedJpegOnCapture ==
    (/\ pc = "done"
     /\ Supplied(r.width)
     /\ Supplied(r.height)
     /\ Captured)
    => ResizedJpeg

\* C7 amended: with both width and height supplied, a successful capture
\* whose bytes decode and whose JPEG encoding succeeds is answered with
\* Content-Type image/jpeg and the JPEG of the captured image fitted into the
\* width x height box, aspect ratio kept (400x400 into 200x100 gives 100x100).
C7_ResizedJpegOnSuccess ==
    (/\ pc = "done"
     /\ Supplied(r.width)
     /\ Supplied(r.height)
     /\ Captured
     /\ err = "")
    => ResizedJpeg

C7_Witness ==
    /\ pc = "done"
    /\ r.width = <<"2", "0", "0">>
    /\ r.height = <<"1", "0", "0">>
    /\ Captured
    /\ Shots[1].buf = PNG(Image(400, 400))
    /\ err = ""
    /\ w.body = JPEG(Image(100, 100))

\* C8: every failure is answered in plain text with the status of its class:
\* 406 for a missing url, incomplete dimensions and an insecure scheme, 500
\* for a url that does not parse, a capture failure, a decode failure and a
\* JPEG encode failure.
C8_FailureStatusByClass ==
    (pc = "done" /\ site # 0)
    => /\ w.contentType = TextPlain
       /\ w.status = IF site \in {71, 89, 94, 106}
                     THEN StatusNotAcceptable
                     ELSE StatusInternalServerError

\* C9: with AllowInsecureURIs set, a request that passes the url-present,
\* dimension and url-parse rules is not rejected for its scheme:
\* chrm.Screenshot is called once, with the parsed url; and handling a
\* request never changes the flag.
C9_RelaxedState ==
    (/\ pc # "idle"
     /\ options.AllowInsecureURIs
     /\ ~Blank(r.url)
     /\ Supplied(r.width) = Supplied(r.height)
     /\ ReqTarget.err = "")
    => /\ site \notin {71, 89, 94, 100, 106}
       /\ pc \in {"respond", "done"} => (Len(Shots) = 1 /\ Shots[1].url = ReqTarget.url)

C9_RelaxedCapturesAnyScheme ==
    [](C9_RelaxedState) /\ [][options' = options]_vars

C9_Witness ==
    /\ pc = "done"
    /\ options.AllowInsecureURIs
    /\ ReqTarget.url.Scheme = FILE
    /\ Len(Shots) = 1
    /\ Shots[1].url.Scheme = FILE
    /\ w.status = StatusOK

\* C10: the rules apply in the order missing url, width without height,
\* height without width, malformed url, insecure scheme, and the first one
\* that fails alone decides the response.
C10_RuleOrder ==
    pc = "done"
    => LET complete == Supplied(r.width) = Supplied(r.height)
       IN  /\ Blank(r.url)
              => w.status = StatusNotAcceptable /\ w.body = Text(MsgMissingURL)
           /\ (~Blank(r.url) /\ Supplied(r.width) /\ ~Supplied(r.height))
              => w.status = StatusNotAcceptable /\ w.body = Text(MsgWidthOnly)
           /\ (~Blank(r.url) /\ Supplied(r.height) /\ ~Supplied(r.width))
              => w.status = StatusNotAcceptable /\ w.body = Text(MsgHeightOnly)
           /\ (~Blank(r.url) /\ complete /\ ReqTarget.err # "")
              => w.status = StatusInternalServerError /\ w.body = Text(ReqTarget.err)
           /\ (/\ ~Blank(r.url) /\ complete /\ ReqTarget.err = ""
               /\ ~options.AllowInsecureURIs
               /\ ~HasPrefix(ReqTarget.url.Scheme, HTTP))
              => w.status = StatusNotAcceptable /\ w.body = Text(MsgInsecure)

C10_Witness ==
    /\ pc = "done"
    /\ ~options.AllowInsecureURIs
    /\ Supplied(r.width) /\ ~Supplied(r.height)
    /\ ReqTarget.err # ""
    /\ w.status = StatusNotAcceptable
    /\ w.body = Text(MsgWidthOnly)

====
